---------------------------- MODULE Spec2Model ----------------------------
(***************************************************************************)
(* Moss growth prediction API: request validation (PredictionInput),       *)
(* artifact loading (load_model), feature framing, scaled inference        *)
(* (predict_growth_days), interpretation (get_interpretation) and the      *)
(* response assembly and exception mapping of the /predict endpoint.       *)
(*                                                                         *)
(* Numbers.  Readings and growth days are integers counting thousandths    *)
(* (22.5 is 22500), so that round(v, 2) is a real operation: it rounds to  *)
(* the nearest multiple of 10.  test_r2 counts hundred-thousandths         *)
(* (0.62437 is 62437), so that round(v, 4) is the same operation.          *)
(* An optional value (None in Python, an absent JSON field) is a sequence  *)
(* of length 0 or 1.                                                       *)
(***************************************************************************)
EXTENDS Integers, Sequences, FiniteSets, Bags, TLC

VARIABLES
    files,       \* the three artifact resources on disk: state and content
    pc,          \* position of the request being served
    raw,         \* the JSON body as submitted: field -> optional number
    errs,        \* pydantic's error list for the body: set of [loc, type]
    reading,     \* the validated PredictionInput: field -> number
    bundle,      \* what load_model returned: <<>> (None, None, None) or <<b>>
    printed,     \* file names load_model printed in its error message
    input_data,  \* the DataFrame row: [columns, values]
    input_scaled,\* the scaler's output row
    prediction,  \* predict_growth_days' first return value, optional
    result,      \* predict_growth_days' second return value, optional
    response,    \* what the caller receives, optional
    calls,       \* how often load_model, transform, predict were called
    cli_output,  \* what a run of the prediction script printed, optional
    parked,      \* the other requests in flight: a bag of their locals
    hpc,         \* position of the health check being served
    hmissing,    \* check_model_files' list of missing files, as a set
    hdisk,       \* the resources as they were when the health check loaded
    hcalls,      \* how often the health check called load_model, transform, predict
    health       \* the HealthResponse returned, optional

vars == <<files, pc, raw, errs, reading, bundle, printed, input_data,
          input_scaled, prediction, result, response, calls, cli_output,
          parked, hpc, hmissing, hdisk, hcalls, health>>

(* The variables of the health check, and those outside one predict        *)
(* request.                                                                *)
hvars == <<hpc, hmissing, hdisk, hcalls, health>>

others == <<parked, hpc, hmissing, hdisk, hcalls, health>>

-----------------------------------------------------------------------------
(* Small helpers *)

None == <<>>

Some(v) == <<v>>

Fields == <<"temperature", "humidity", "tds", "ph">>

FieldSet == {Fields[i] : i \in 1..Len(Fields)}

required_files == <<"best_model.pkl", "scaler.pkl", "model_info.json">>

FileSet == {required_files[i] : i \in 1..Len(required_files)}

(* Python's round(v, ndigits) on a value counted in units ten times finer  *)
(* than the last kept digit: nearest multiple of 10, a tie going to the    *)
(* even neighbour.                                                         *)
RoundHalfEven(v) ==
    LET q == v \div 10
        r == v % 10
    IN  IF r < 5 THEN 10 * q
        ELSE IF r > 5 THEN 10 * (q + 1)
        ELSE IF q % 2 = 0 THEN 10 * q ELSE 10 * (q + 1)


-----------------------------------------------------------------------------
(* Input Validator: class PredictionInput *)

(* Field(..., ge=..., le=...) of the four fields *)
ge_exclusive ==
    [temperature |-> 18001, humidity |-> 50001, tds |-> 400001, ph |-> 6001]

ge == [temperature |-> 18000, humidity |-> 50000, tds |-> 400000, ph |-> 6000]

le == [temperature |-> 35000, humidity |-> 80000, tds |-> 800000, ph |-> 7000]

(* The @validator methods: None stands for the ValueError they raise. *)
validate_temperature(v) ==
    IF v < 18000 \/ v > 35000 THEN None ELSE Some(RoundHalfEven(v))

validate_humidity(v) ==
    IF v < 50000 \/ v > 80000 THEN None ELSE Some(RoundHalfEven(v))

validate_tds(v) ==
    IF v < 400000 \/ v > 800000 THEN None ELSE Some(RoundHalfEven(v))

validate_ph(v) ==
    IF v < 6000 \/ v > 7000 THEN None ELSE Some(RoundHalfEven(v))

validator_unrounded(f, v) == Some(v)

validator(f, v) ==
    CASE f = "temperature" -> validate_temperature(v)
      [] f = "humidity"    -> validate_humidity(v)
      [] f = "tds"         -> validate_tds(v)
      [] f = "ph"          -> validate_ph(v)

(* One field of the body: a required field ("..."), then the ge/le         *)
(* constraints, then the field's validator.  The first failure is the      *)
(* field's error; value is the validated value when there is none.         *)
ValidateField_default0(f, o) ==
    LET v == IF o = None THEN 0 ELSE o[1]
    IN  IF v < ge[f] THEN [error |-> Some("greater_than_equal"), value |-> 0]
        ELSE IF v > le[f] THEN [error |-> Some("less_than_equal"), value |-> 0]
        ELSE [error |-> None, value |-> validator(f, v)[1]]

ValidateField_round_first(f, o) ==
    IF o = None THEN [error |-> Some("missing"), value |-> 0]
    ELSE IF RoundHalfEven(o[1]) < ge[f]
         THEN [error |-> Some("greater_than_equal"), value |-> 0]
    ELSE IF RoundHalfEven(o[1]) > le[f]
         THEN [error |-> Some("less_than_equal"), value |-> 0]
    ELSE [error |-> None, value |-> RoundHalfEven(o[1])]

ValidateField(f, o) ==
    IF o = None THEN [error |-> Some("missing"), value |-> 0]
    ELSE IF o[1] < ge[f] THEN [error |-> Some("greater_than_equal"), value |-> 0]
    ELSE IF o[1] > le[f] THEN [error |-> Some("less_than_equal"), value |-> 0]
    ELSE IF validator(f, o[1]) = None
         THEN [error |-> Some("value_error"), value |-> 0]
    ELSE [error |-> None, value |-> validator(f, o[1])[1]]

(* The errors of the whole body: every field is validated, whatever the    *)
(* other fields did, and each failure is one entry with the field as loc.  *)
ErrorsOf_first_only(body) ==
    LET bad == {i \in 1..Len(Fields) :
                    ValidateField(Fields[i], body[Fields[i]]).error # None}
    IN  {[loc |-> Fields[i], type |-> ValidateField(Fields[i], body[Fields[i]]).error[1]] :
            i \in {j \in bad : \A k \in bad : j <= k}}

ErrorsOf(body) ==
    {[loc |-> f, type |-> ValidateField(f, body[f]).error[1]] :
        f \in {g \in FieldSet : ValidateField(g, body[g]).error # None}}

PredictionInput(body) ==
    [errors |-> ErrorsOf(body),
     values |-> [f \in FieldSet |-> ValidateField(f, body[f]).value]]

(* The bodies a client may send: per field, absent, just outside each      *)
(* bound, each bound itself, and an interior value with a third decimal.   *)
RawValues ==
    [temperature |-> {17996, 18000, 22505, 34996, 35000, 35001},
     humidity    |-> {49990, 50000, 70004, 80000, 80010},
     tds         |-> {399999, 400000, 600125, 800000, 800001},
     ph          |-> {5990, 6000, 6404, 7000, 7500}]

Bodies ==
    [temperature : {None} \cup {Some(v) : v \in RawValues.temperature},
     humidity    : {None} \cup {Some(v) : v \in RawValues.humidity},
     tds         : {None} \cup {Some(v) : v \in RawValues.tds},
     ph          : {None} \cup {Some(v) : v \in RawValues.ph}]

-----------------------------------------------------------------------------
(* The artifact resources.  A resource is absent, present and readable     *)
(* ("ok", with its content), or present but not deserializable.            *)

(* model_info.json: model_name, test_r2 and the trained feature list.  The *)
(* lists cover the trained order, two entries swapped, a list of the wrong *)
(* length, and a name that is no reading field.                            *)
FeatureLists ==
    {<<"temperature", "humidity", "tds", "ph">>,
     <<"humidity", "temperature", "tds", "ph">>,
     <<"temperature", "humidity", "tds">>,
     <<"temperature", "humidity", "tds", "light">>}

ModelInfos ==
    {[model_name |-> "Random Forest", test_r2 |-> 62437, features |-> fs] :
        fs \in FeatureLists}

(* scaler.pkl: a fitted StandardScaler, per column a mean and a scale, and *)
(* the column names of the frame it was fitted on.  Whether transform      *)
(* raises a ValueError on other column names or only warns depends on the  *)
(* library version the object runs with; it is fixed for a deployment.     *)
Scalers ==
    {[feature_names_in_ |-> Some(<<"temperature", "humidity", "tds", "ph">>),
      mean_  |-> <<22500, 70000, 600000, 6400>>,
      scale_ |-> <<1000, 1000, 10000, 100>>,
      names_checked |-> strict] : strict \in BOOLEAN}

(* best_model.pkl: a fitted regressor, here linear in the scaled row, or   *)
(* one whose predict raises (malformed internal state).                    *)
Regressors ==
    {[intercept |-> i, coef |-> <<-300, 100, 50, 1>>, raises |-> None] :
        i \in {14996, 15000, 25000, 35000}}
    \cup
    {[intercept |-> 0, coef |-> <<0, 0, 0, 0>>, raises |-> Some(e)] :
        e \in {"ValueError", "AttributeError"}}

FileStates(contents) ==
    {[state |-> "absent", content |-> None],
     [state |-> "corrupt", content |-> None]}
    \cup {[state |-> "ok", content |-> Some(c)] : c \in contents}

Disks ==
    {("best_model.pkl" :> m) @@ ("scaler.pkl" :> sc) @@ ("model_info.json" :> mi) :
        m \in FileStates(Regressors), sc \in FileStates(Scalers),
        mi \in FileStates(ModelInfos)}

-----------------------------------------------------------------------------
(* Exceptions: [cls, filename].  json.JSONDecodeError is a ValueError.     *)

Exc(cls, filename) == [cls |-> cls, filename |-> filename]

IsValueError(e) == e.cls \in {"ValueError", "JSONDecodeError"}

IsFileNotFoundError(e) == e.cls = "FileNotFoundError"

(* What reading one resource raises, None when it reads fine: joblib.load  *)
(* for the two pickles, open and json.load for the metadata.               *)
ReadRaises(disk, f) ==
    IF disk[f].state = "absent" THEN Some(Exc("FileNotFoundError", Some(f)))
    ELSE IF disk[f].state = "corrupt"
         THEN Some(Exc(IF f = "model_info.json" THEN "JSONDecodeError"
                       ELSE "UnpicklingError", None))
    ELSE None

(* load_model: the three reads in order; the first one that raises ends    *)
(* it.  A FileNotFoundError is caught, printed, and (None, None, None)     *)
(* returned; any other exception leaves the function.                      *)
load_model_order == <<"best_model.pkl", "scaler.pkl", "model_info.json">>

load_model(disk) ==
    LET failing == {i \in 1..3 : ReadRaises(disk, load_model_order[i]) # None}
        first   == CHOOSE i \in failing : \A j \in failing : i <= j
        e       == ReadRaises(disk, load_model_order[first])[1]
    IN  IF failing = {}
        THEN [ret |-> Some([model |-> disk["best_model.pkl"].content[1],
                            scaler |-> disk["scaler.pkl"].content[1],
                            model_info |-> disk["model_info.json"].content[1]]),
              raised |-> None, printed |-> {}]
        ELSE IF IsFileNotFoundError(e)
        THEN [ret |-> None, raised |-> None, printed |-> {e.filename[1]}]
        ELSE [ret |-> None, raised |-> Some(e), printed |-> {}]

-----------------------------------------------------------------------------
(* Inference pipeline: predict_growth_days *)

(* pd.DataFrame([input_values], columns=feature_names): the values in the  *)
(* order the code lists them, labelled by feature_names; pandas raises a   *)
(* ValueError when the number of labels is not the number of values.       *)
input_values(r) == <<r.temperature, r.humidity, r.tds, r.ph>>

DataFrame(values, columns) ==
    IF Len(columns) # Len(values)
    THEN [raised |-> Some(Exc("ValueError", None)), frame |-> None]
    ELSE [raised |-> None,
          frame |-> Some([columns |-> columns, values |-> values])]

(* scaler.transform: column i is centred and scaled with the statistics of *)
(* position i.  A scaler fitted on a named frame compares the frame's      *)
(* column names with its own.                                              *)
NamesMismatch(scaler, frame) ==
    /\ scaler.feature_names_in_ # None
    /\ scaler.feature_names_in_[1] # frame.columns

TransformRaises(scaler, frame) ==
    scaler.names_checked /\ NamesMismatch(scaler, frame)

transform(scaler, frame) ==
    [i \in 1..Len(frame.values) |->
        (frame.values[i] - scaler.mean_[i]) \div scaler.scale_[i]]

RECURSIVE Dot(_, _, _)
Dot(a, b, n) == IF n = 0 THEN 0 ELSE a[n] * b[n] + Dot(a, b, n - 1)

(* model.predict(input_scaled)[0] *)
model_predict(model, row) == model.intercept + Dot(model.coef, row, Len(row))

-----------------------------------------------------------------------------
(* Result Interpreter and Response Assembler *)

get_interpretation_closed(predicted_days) ==
    IF predicted_days <= 15000 THEN "Very fast growth - Excellent conditions"
    ELSE IF predicted_days <= 25000 THEN "Fast growth - Good conditions"
    ELSE IF predicted_days <= 35000 THEN "Moderate growth - Acceptable conditions"
    ELSE "Slow growth - Suboptimal conditions"

get_interpretation(predicted_days) ==
    IF predicted_days < 15000 THEN "Very fast growth - Excellent conditions"
    ELSE IF predicted_days < 25000 THEN "Fast growth - Good conditions"
    ELSE IF predicted_days < 35000 THEN "Moderate growth - Acceptable conditions"
    ELSE "Slow growth - Suboptimal conditions"

(* The copy in the prediction script *)
predict_get_interpretation(predicted_days) ==
    IF predicted_days < 15000 THEN "Very fast growth - Excellent conditions"
    ELSE IF predicted_days < 25000 THEN "Fast growth - Good conditions"
    ELSE IF predicted_days < 35000 THEN "Moderate growth - Acceptable conditions"
    ELSE "Slow growth - Suboptimal conditions"

ResultOf_r2_unrounded(r, pred, model_info) ==
    [input_conditions |-> [temperature |-> r.temperature, humidity |-> r.humidity,
                           tds |-> r.tds, ph |-> r.ph],
     predicted_growth_days |-> RoundHalfEven(pred),
     model_used |-> model_info.model_name,
     model_accuracy_r2 |-> model_info.test_r2]

(* The result dictionary predict_growth_days builds. *)
ResultOf(r, pred, model_info) ==
    [input_conditions |-> [temperature |-> r.temperature, humidity |-> r.humidity,
                           tds |-> r.tds, ph |-> r.ph],
     predicted_growth_days |-> RoundHalfEven(pred),
     model_used |-> model_info.model_name,
     model_accuracy_r2 |-> RoundHalfEven(model_info.test_r2)]

(* PredictionOutput as the endpoint fills it. *)
PredictionOutput(pred, res) ==
    [predicted_growth_days |-> RoundHalfEven(pred),
     input_conditions |-> res.input_conditions,
     model_used |-> res.model_used,
     model_accuracy_r2 |-> res.model_accuracy_r2,
     interpretation |-> get_interpretation(pred)]

(* What the caller receives.  named: the artifact files the detail names.  *)
Failure(status, detail, named, errors) ==
    [status |-> status, detail |-> detail, named |-> named,
     errors |-> errors, body |-> None]

Success(out) ==
    [status |-> 200, detail |-> "OK", named |-> {}, errors |-> {},
     body |-> Some(out)]

(* The except clauses of the endpoint, in their order. *)
HandleException(e) ==
    IF IsValueError(e) THEN Failure(422, "Validation error", {}, {})
    ELSE IF IsFileNotFoundError(e)
         THEN Failure(500, "Model file not found",
                      IF e.filename = None THEN {} ELSE {e.filename[1]}, {})
    ELSE Failure(500, "Prediction error", {}, {})

-----------------------------------------------------------------------------
(* The server: one request at a time through the /predict endpoint *)

NoCalls == [load_model |-> 0, transform |-> 0, predict |-> 0]

Init ==
    /\ files \in Disks
    /\ pc = "idle"
    /\ raw = None
    /\ errs = {}
    /\ reading = None
    /\ bundle = None
    /\ printed = {}
    /\ input_data = None
    /\ input_scaled = None
    /\ prediction = None
    /\ result = None
    /\ response = None
    /\ calls = NoCalls
    /\ cli_output = None
    /\ parked = EmptyBag
    /\ hpc = "idle"
    /\ hmissing = {}
    /\ hdisk = None
    /\ hcalls = NoCalls
    /\ health = None

Receive_unchecked(body) ==
    /\ pc = "idle"
    /\ raw' = Some(body)
    /\ errs' = PredictionInput(body).errors
    /\ response' = None
    /\ reading' = Some(PredictionInput(body).values)
    /\ pc' = "load"
    /\ UNCHANGED <<files, bundle, printed, input_data, input_scaled,
                   prediction, result, calls, cli_output, parked,
                   hpc, hmissing, hdisk, hcalls, health>>

(* A request arrives: the body is parsed into PredictionInput before the   *)
(* endpoint function runs.  With errors the framework answers 422 with the *)
(* error list and the endpoint is not entered.                             *)
Receive(body) ==
    /\ pc = "idle"
    /\ raw' = Some(body)
    /\ LET input == PredictionInput(body)
       IN  /\ errs' = input.errors
           /\ IF input.errors # {}
              THEN /\ response' = Some(Failure(422, "Request validation", {},
                                               input.errors))
                   /\ reading' = None
                   /\ pc' = "done"
              ELSE /\ response' = None
                   /\ reading' = Some(input.values)
                   /\ pc' = "load"
    /\ UNCHANGED <<files, bundle, printed, input_data, input_scaled,
                   prediction, result, calls, cli_output, parked,
                   hpc, hmissing, hdisk, hcalls, health>>

LoadModel_retry ==
    /\ pc = "load"
    /\ calls' = [calls EXCEPT !.load_model = @ + 1]
    /\ printed' = load_model(files).printed
    /\ IF load_model(files).ret = None /\ calls.load_model = 0
       THEN /\ pc' = "load"
            /\ UNCHANGED <<response, bundle>>
       ELSE IF load_model(files).raised # None
       THEN /\ response' = Some(HandleException(load_model(files).raised[1]))
            /\ pc' = "done"
            /\ UNCHANGED bundle
       ELSE IF load_model(files).ret = None
       THEN /\ pc' = "respond"
            /\ UNCHANGED <<response, bundle>>
       ELSE /\ bundle' = load_model(files).ret
            /\ pc' = "frame"
            /\ UNCHANGED response
    /\ UNCHANGED <<files, raw, errs, reading, input_data, input_scaled,
                   prediction, result, cli_output, parked,
                   hpc, hmissing, hdisk, hcalls, health>>

(* predict_growth_days, line 41 to 44 *)
LoadModel ==
    /\ pc = "load"
    /\ calls' = [calls EXCEPT !.load_model = @ + 1]
    /\ printed' = load_model(files).printed
    /\ IF load_model(files).raised # None
       THEN /\ response' = Some(HandleException(load_model(files).raised[1]))
            /\ pc' = "done"
            /\ UNCHANGED bundle
       ELSE IF load_model(files).ret = None
       THEN /\ pc' = "respond"
            /\ UNCHANGED <<response, bundle>>
       ELSE /\ bundle' = load_model(files).ret
            /\ pc' = "frame"
            /\ UNCHANGED response
    /\ UNCHANGED <<files, raw, errs, reading, input_data, input_scaled,
                   prediction, result, cli_output, parked,
                   hpc, hmissing, hdisk, hcalls, health>>

(* predict_growth_days, line 47 to 51 *)
Frame ==
    /\ pc = "frame"
    /\ LET df == DataFrame(input_values(reading[1]), bundle[1].model_info.features)
       IN  IF df.raised # None
           THEN /\ response' = Some(HandleException(df.raised[1]))
                /\ pc' = "done"
                /\ UNCHANGED input_data
           ELSE /\ input_data' = df.frame
                /\ pc' = "transform"
                /\ UNCHANGED response
    /\ UNCHANGED <<files, raw, errs, reading, bundle, printed, input_scaled,
                   prediction, result, calls, cli_output, parked,
                   hpc, hmissing, hdisk, hcalls, health>>

Transform_per_call ==
    /\ pc = "transform"
    /\ calls' = [calls EXCEPT !.transform = @ + 1]
    /\ \E strict \in IF NamesMismatch(bundle[1].scaler, input_data[1])
                     THEN BOOLEAN ELSE {FALSE} :
          IF strict
          THEN /\ response' = Some(HandleException(Exc("ValueError", None)))
               /\ pc' = "done"
               /\ UNCHANGED input_scaled
          ELSE /\ input_scaled' = Some(transform(bundle[1].scaler, input_data[1]))
               /\ pc' = "predict"
               /\ UNCHANGED response
    /\ UNCHANGED <<files, raw, errs, reading, bundle, printed, input_data,
                   prediction, result, cli_output, parked,
                   hpc, hmissing, hdisk, hcalls, health>>

(* predict_growth_days, line 54 *)
Transform ==
    /\ pc = "transform"
    /\ calls' = [calls EXCEPT !.transform = @ + 1]
    /\ IF TransformRaises(bundle[1].scaler, input_data[1])
       THEN /\ response' = Some(HandleException(Exc("ValueError", None)))
            /\ pc' = "done"
            /\ UNCHANGED input_scaled
       ELSE /\ input_scaled' = Some(transform(bundle[1].scaler, input_data[1]))
            /\ pc' = "predict"
            /\ UNCHANGED response
    /\ UNCHANGED <<files, raw, errs, reading, bundle, printed, input_data,
                   prediction, result, cli_output, parked,
                   hpc, hmissing, hdisk, hcalls, health>>

(* predict_growth_days, line 55 *)
Predict ==
    /\ pc = "predict"
    /\ calls' = [calls EXCEPT !.predict = @ + 1]
    /\ IF bundle[1].model.raises # None
       THEN /\ response' = Some(HandleException(Exc(bundle[1].model.raises[1], None)))
            /\ pc' = "done"
            /\ UNCHANGED prediction
       ELSE /\ prediction' = Some(model_predict(bundle[1].model, input_scaled[1]))
            /\ pc' = "result"
            /\ UNCHANGED response
    /\ UNCHANGED <<files, raw, errs, reading, bundle, printed, input_data,
                   input_scaled, result, cli_output, parked,
                   hpc, hmissing, hdisk, hcalls, health>>

(* predict_growth_days, line 57 to 69 *)
BuildResult ==
    /\ pc = "result"
    /\ result' = Some(ResultOf(reading[1], prediction[1], bundle[1].model_info))
    /\ pc' = "respond"
    /\ UNCHANGED <<files, raw, errs, reading, bundle, printed, input_data,
                   input_scaled, prediction, response, calls, cli_output, parked,
                   hpc, hmissing, hdisk, hcalls, health>>

(* The endpoint after predict_growth_days returned: the HTTPException it   *)
(* raises for a None result is raised inside its own try block.            *)
Respond ==
    /\ pc = "respond"
    /\ IF prediction = None \/ result = None
       THEN response' = Some(HandleException(Exc("HTTPException", None)))
       ELSE response' = Some(Success(PredictionOutput(prediction[1], result[1])))
    /\ pc' = "done"
    /\ UNCHANGED <<files, raw, errs, reading, bundle, printed, input_data,
                   input_scaled, prediction, result, calls, cli_output, parked,
                   hpc, hmissing, hdisk, hcalls, health>>

(* The prediction script run on its own (its __main__ block): load_model, *)
(* then predict_growth_days(22.5, 70, 600, 6.4), which loads again, and    *)
(* the prediction printed with its interpretation.  An exception that     *)
(* load_model does not catch ends the script with a traceback.            *)
Crashed == [crashed |-> TRUE, pred |-> None, shown |-> None, interpretation |-> None]

Silent == [crashed |-> FALSE, pred |-> None, shown |-> None, interpretation |-> None]

ScriptMain(disk) ==
    LET l  == load_model(disk)
        df == DataFrame(<<22500, 70000, 600000, 6400>>, l.ret[1].model_info.features)
        p  == model_predict(l.ret[1].model, transform(l.ret[1].scaler, df.frame[1]))
    IN  IF l.raised # None THEN Crashed
        ELSE IF l.ret = None THEN Silent
        ELSE IF df.raised # None THEN Crashed
        ELSE IF TransformRaises(l.ret[1].scaler, df.frame[1]) THEN Crashed
        ELSE IF l.ret[1].model.raises # None THEN Crashed
        ELSE IF p = 0 THEN [Silent EXCEPT !.pred = Some(p)]
        ELSE [crashed |-> FALSE, pred |-> Some(p), shown |-> Some(RoundHalfEven(p)),
              interpretation |-> Some(predict_get_interpretation(p))]

RunScript ==
    /\ pc = "idle"
    /\ cli_output' = Some(ScriptMain(files))
    /\ printed' = load_model(files).printed
    /\ pc' = "done"
    /\ UNCHANGED <<files, raw, errs, reading, bundle, input_data, input_scaled,
                   prediction, result, response, calls, parked,
                   hpc, hmissing, hdisk, hcalls, health>>

(* The response is sent; the request's locals go away. *)
Finish ==
    /\ pc = "done"
    /\ pc' = "idle"
    /\ raw' = None
    /\ errs' = {}
    /\ reading' = None
    /\ bundle' = None
    /\ printed' = {}
    /\ input_data' = None
    /\ input_scaled' = None
    /\ prediction' = None
    /\ result' = None
    /\ response' = None
    /\ calls' = NoCalls
    /\ cli_output' = None
    /\ UNCHANGED <<files, parked, hpc, hmissing, hdisk, hcalls, health>>

-----------------------------------------------------------------------------
(* The health check: GET /health *)

(* check_model_files: the required files that do not exist.  A file that   *)
(* cannot be deserialized does exist.                                      *)
check_model_files(disk) ==
    [missing_files |-> {f \in FileSet : disk[f].state = "absent"},
     all_exist |-> \A f \in FileSet : disk[f].state # "absent"]

HealthResponse(status, loaded, name, accuracy, message) ==
    [status |-> status, model_loaded |-> loaded, model_name |-> name,
     model_accuracy |-> accuracy, message |-> message]

(* The try block of health_check, given what load_model did. *)
HealthAfterLoad_uncaught(l) ==
    IF l.raised # None
    THEN HealthResponse("raised", FALSE, None, None, "Internal Server Error")
    ELSE IF l.ret = None
    THEN HealthResponse("unhealthy", FALSE, None, None, "Failed to load model files")
    ELSE HealthResponse("healthy", TRUE, Some(l.ret[1].model_info.model_name),
                        Some(RoundHalfEven(l.ret[1].model_info.test_r2)),
                        "API is operational and model is loaded successfully")

HealthAfterLoad(l) ==
    IF l.raised # None
    THEN HealthResponse("unhealthy", FALSE, None, None, "Error loading model")
    ELSE IF l.ret = None
    THEN HealthResponse("unhealthy", FALSE, None, None, "Failed to load model files")
    ELSE HealthResponse("healthy", TRUE, Some(l.ret[1].model_info.model_name),
                        Some(RoundHalfEven(l.ret[1].model_info.test_r2)),
                        "API is operational and model is loaded successfully")

(* health_check, line 294 to 301 *)
HealthCheckFiles ==
    /\ hpc = "idle"
    /\ hmissing' = check_model_files(files).missing_files
    /\ IF ~check_model_files(files).all_exist
       THEN /\ health' = Some(HealthResponse("unhealthy", FALSE, None, None,
                                             "Missing required files"))
            /\ hpc' = "done"
       ELSE /\ health' = None
            /\ hpc' = "load"
    /\ UNCHANGED <<hdisk, hcalls, parked>>
    /\ UNCHANGED <<files, pc, raw, errs, reading, bundle, printed, input_data,
                   input_scaled, prediction, result, response, calls, cli_output>>

(* health_check, line 304 to 327 *)
HealthLoad ==
    /\ hpc = "load"
    /\ hdisk' = Some(files)
    /\ hcalls' = [hcalls EXCEPT !.load_model = @ + 1]
    /\ health' = Some(HealthAfterLoad(load_model(files)))
    /\ hpc' = "done"
    /\ UNCHANGED <<hmissing, parked>>
    /\ UNCHANGED <<files, pc, raw, errs, reading, bundle, printed, input_data,
                   input_scaled, prediction, result, response, calls, cli_output>>

(* The HealthResponse is sent. *)
HealthFinish ==
    /\ hpc = "done"
    /\ hpc' = "idle"
    /\ hmissing' = {}
    /\ hdisk' = None
    /\ hcalls' = NoCalls
    /\ health' = None
    /\ UNCHANGED parked
    /\ UNCHANGED <<files, pc, raw, errs, reading, bundle, printed, input_data,
                   input_scaled, prediction, result, response, calls, cli_output>>

(* Something outside the server removes an artifact file. *)
Vanish(f) ==
    /\ files[f].state # "absent"
    /\ files' = [files EXCEPT ![f] = [state |-> "absent", content |-> None]]
    /\ UNCHANGED <<pc, raw, errs, reading, bundle, printed, input_data,
                   input_scaled, prediction, result, response, calls, cli_output>>
    /\ UNCHANGED others

Next ==
    \/ \E body \in Bodies : Receive(body)
    \/ LoadModel
    \/ Frame
    \/ Transform
    \/ Predict
    \/ BuildResult
    \/ Respond
    \/ RunScript
    \/ Finish

Spec == Init /\ [][Next]_vars

(* The health check next to predict requests, with files that may vanish   *)
(* at any moment.  The requests carry the documented example body.         *)
ExampleBodies ==
    {[temperature |-> Some(22500), humidity |-> Some(70000),
      tds |-> Some(600000), ph |-> Some(6400)]}

HealthNext ==
    \/ HealthCheckFiles
    \/ HealthLoad
    \/ HealthFinish
    \/ \E f \in FileSet : Vanish(f)
    \/ \E body \in ExampleBodies : Receive(body)
    \/ LoadModel
    \/ Frame
    \/ Transform
    \/ Predict
    \/ BuildResult
    \/ Respond
    \/ Finish

HealthSpec == Init /\ [][HealthNext]_vars

-----------------------------------------------------------------------------
(* Several predict requests in flight.  Each request has its own locals    *)
(* (the frames of predict and predict_growth_days); the only thing the     *)
(* requests share is the artifact files.  The variables pc .. calls hold   *)
(* the locals of the request that is running; the others wait in parked.   *)
(* A switch may happen between any two steps.                              *)

MaxParked == 1

Locals ==
    [pc |-> pc, raw |-> raw, errs |-> errs, reading |-> reading,
     bundle |-> bundle, printed |-> printed, input_data |-> input_data,
     input_scaled |-> input_scaled, prediction |-> prediction,
     result |-> result, response |-> response, calls |-> calls]

Fresh ==
    [pc |-> "idle", raw |-> None, errs |-> {}, reading |-> None,
     bundle |-> None, printed |-> {}, input_data |-> None,
     input_scaled |-> None, prediction |-> None,
     result |-> None, response |-> None, calls |-> NoCalls]

(* The running request is set aside and request c, or a new one, runs. *)
Switch_shared_result(c) ==
    /\ c \in BagToSet(parked) \cup {Fresh}
    /\ c # Locals
    /\ LET rest == IF c = Fresh THEN parked ELSE parked (-) SetToBag({c})
           new  == IF pc = "idle" THEN rest ELSE rest (+) SetToBag({Locals})
       IN  /\ BagCardinality(new) <= MaxParked
           /\ parked' = new
    /\ pc' = c.pc
    /\ raw' = c.raw
    /\ errs' = c.errs
    /\ reading' = c.reading
    /\ bundle' = c.bundle
    /\ printed' = c.printed
    /\ input_data' = c.input_data
    /\ input_scaled' = c.input_scaled
    /\ prediction' = c.prediction
    /\ response' = c.response
    /\ calls' = c.calls
    /\ UNCHANGED result
    /\ UNCHANGED <<files, cli_output, hpc, hmissing, hdisk, hcalls, health>>

Switch(c) ==
    /\ c \in BagToSet(parked) \cup {Fresh}
    /\ c # Locals
    /\ LET rest == IF c = Fresh THEN parked ELSE parked (-) SetToBag({c})
           new  == IF pc = "idle" THEN rest ELSE rest (+) SetToBag({Locals})
       IN  /\ BagCardinality(new) <= MaxParked
           /\ parked' = new
    /\ pc' = c.pc
    /\ raw' = c.raw
    /\ errs' = c.errs
    /\ reading' = c.reading
    /\ bundle' = c.bundle
    /\ printed' = c.printed
    /\ input_data' = c.input_data
    /\ input_scaled' = c.input_scaled
    /\ prediction' = c.prediction
    /\ result' = c.result
    /\ response' = c.response
    /\ calls' = c.calls
    /\ UNCHANGED <<files, cli_output, hpc, hmissing, hdisk, hcalls, health>>

(* The bodies of the concurrent requests: the documented example, a second *)
(* valid reading with third decimals, and a body that fails validation.    *)
ConcBodies ==
    {[temperature |-> Some(22500), humidity |-> Some(70000),
      tds |-> Some(600000), ph |-> Some(6400)],
     [temperature |-> Some(34996), humidity |-> Some(50000),
      tds |-> Some(600125), ph |-> Some(7000)],
     [temperature |-> Some(22500), humidity |-> Some(80010),
      tds |-> Some(600000), ph |-> None]}

ConcNext ==
    \/ \E body \in ConcBodies : Receive(body)
    \/ LoadModel
    \/ Frame
    \/ Transform
    \/ Predict
    \/ BuildResult
    \/ Respond
    \/ Finish
    \/ \E c \in BagToSet(parked) \cup {Fresh} : Switch(c)

ConcSpec == Init /\ [][ConcNext]_vars

(* The endpoint run from start to end on its own: the response to body     *)
(* with the artifact files as in disk.                                     *)
Serve(body, disk) ==
    LET input == PredictionInput(body)
        l     == load_model(disk)
        df    == DataFrame(input_values(input.values), l.ret[1].model_info.features)
        p     == model_predict(l.ret[1].model, transform(l.ret[1].scaler, df.frame[1]))
    IN  IF input.errors # {}
        THEN Failure(422, "Request validation", {}, input.errors)
        ELSE IF l.raised # None THEN HandleException(l.raised[1])
        ELSE IF l.ret = None THEN HandleException(Exc("HTTPException", None))
        ELSE IF df.raised # None THEN HandleException(df.raised[1])
        ELSE IF TransformRaises(l.ret[1].scaler, df.frame[1])
             THEN HandleException(Exc("ValueError", None))
        ELSE IF l.ret[1].model.raises # None
             THEN HandleException(Exc(l.ret[1].model.raises[1], None))
        ELSE Success(PredictionOutput(p, ResultOf(input.values, p, l.ret[1].model_info)))

-----------------------------------------------------------------------------
(* Vocabulary of the properties: the range table, 2-decimal rounding and   *)
(* the category bands as the specification states them.                    *)

Submitted(f) == raw[1][f]

Present(f) == raw # None /\ Submitted(f) # None

InInterval(f, v) ==
    CASE f = "temperature" -> 18000 <= v /\ v <= 35000
      [] f = "humidity"    -> 50000 <= v /\ v <= 80000
      [] f = "tds"         -> 400000 <= v /\ v <= 800000
      [] f = "ph"          -> 6000 <= v /\ v <= 7000

OutOfRange(f) == Present(f) /\ ~InInterval(f, Submitted(f)[1])

Answered == pc = "done" /\ response # None

Succeeded == Answered /\ response[1].body # None

Rejected422 ==
    /\ Answered
    /\ response[1].status = 422
    /\ response[1].body = None

Dist(a, b) == IF a >= b THEN a - b ELSE b - a

(* r is v rounded to 2 decimals: the nearest hundredth, a tie to the even  *)
(* one.                                                                    *)
IsRounded2(r, v) ==
    /\ r % 10 = 0
    /\ Dist(r, v) <= 5
    /\ Dist(r, v) = 5 => (r \div 10) % 2 = 0

Categories ==
    {"Very fast growth - Excellent conditions", "Fast growth - Good conditions",
     "Moderate growth - Acceptable conditions", "Slow growth - Suboptimal conditions"}

InBand(days, c) ==
    CASE c = "Very fast growth - Excellent conditions" -> days < 15000
      [] c = "Fast growth - Good conditions" -> 15000 <= days /\ days < 25000
      [] c = "Moderate growth - Acceptable conditions" -> 25000 <= days /\ days < 35000
      [] c = "Slow growth - Suboptimal conditions" -> days >= 35000

-----------------------------------------------------------------------------
(* C1: a request carrying all four fields is accepted if and only if every *)
(* raw value lies in its inclusive interval; the bounds themselves are     *)
(* accepted, and one field outside its interval rejects the request with   *)
(* HTTP 422 whatever the other three are.                                  *)
C1_AcceptedIffInRange ==
    (\A f \in FieldSet : Present(f)) =>
        /\ (errs = {}) <=> (\A f \in FieldSet : InInterval(f, Submitted(f)[1]))
        /\ errs = {} => reading # None /\ (Answered => response[1].errors = {})
        /\ errs # {} => Rejected422 /\ reading = None

(* Every field at one of its bounds, and the request accepted. *)
C1_Witness ==
    /\ raw # None
    /\ raw[1] = [temperature |-> Some(35000), humidity |-> Some(50000),
                 tds |-> Some(800000), ph |-> Some(6000)]
    /\ errs = {}
    /\ reading # None
    /\ pc = "load"

(* C2: validation reports each violation independently: the failure names  *)
(* every out-of-range field of the request, not only the first, and names  *)
(* no field whose value is in range.                                       *)
C2_EveryOffenderNamed ==
    raw # None =>
        \A f \in FieldSet :
            /\ OutOfRange(f) =>
                  /\ f \in {e.loc : e \in errs}
                  /\ Rejected422
                  /\ f \in {e.loc : e \in response[1].errors}
            /\ (Present(f) /\ InInterval(f, Submitted(f)[1])) =>
                  /\ f \notin {e.loc : e \in errs}
                  /\ response # None => f \notin {e.loc : e \in response[1].errors}

(* Three fields out of range at once and one in range: exactly the three   *)
(* are named.                                                              *)
C2_Witness ==
    /\ Rejected422
    /\ OutOfRange("humidity") /\ OutOfRange("tds") /\ OutOfRange("ph")
    /\ Present("temperature") /\ ~OutOfRange("temperature")
    /\ {e.loc : e \in response[1].errors} = {"humidity", "tds", "ph"}

(* C3: a request that omits a field is rejected with an error whose kind   *)
(* differs from the kind an out-of-range value gets, and neither returns a *)
(* prediction.                                                             *)
C3_MissingDistinctFromOutOfRange ==
    raw # None =>
        /\ \A f \in FieldSet :
              /\ Submitted(f) = None =>
                    /\ Rejected422
                    /\ [loc |-> f, type |-> "missing"] \in response[1].errors
              /\ OutOfRange(f) =>
                    /\ Rejected422
                    /\ \E e \in response[1].errors : e.loc = f /\ e.type # "missing"
        /\ \A e \in errs : (e.type = "missing") <=> (Submitted(e.loc) = None)
        /\ errs # {} => prediction = None /\ result = None /\ ~Succeeded

(* One request with a missing field and an out-of-range field. *)
C3_Witness ==
    /\ Rejected422
    /\ Submitted("tds") = None
    /\ OutOfRange("ph")
    /\ [loc |-> "tds", type |-> "missing"] \in response[1].errors
    /\ [loc |-> "ph", type |-> "less_than_equal"] \in response[1].errors

(* C4: for an accepted request the values carried forward are the          *)
(* 2-decimal rounding of the submitted ones: the validated reading, the    *)
(* values framed for the pipeline and the echoed input_conditions.         *)
C4_RoundedCarriedForward ==
    /\ reading # None =>
          \A f \in FieldSet : IsRounded2(reading[1][f], Submitted(f)[1])
    /\ input_data # None =>
          \A i \in 1..4 :
              \E f \in FieldSet :
                  /\ IsRounded2(input_data[1].values[i], Submitted(f)[1])
                  /\ input_data[1].values[i] = reading[1][f]
    /\ result # None =>
          \A f \in FieldSet :
              IsRounded2(result[1].input_conditions[f], Submitted(f)[1])
    /\ Succeeded =>
          \A f \in FieldSet :
              IsRounded2(response[1].body[1].input_conditions[f], Submitted(f)[1])

(* A success whose submitted values all carry a third decimal. *)
C4_Witness ==
    /\ Succeeded
    /\ \A f \in FieldSet : Submitted(f)[1] % 10 # 0
    /\ response[1].body[1].input_conditions =
          [temperature |-> 22500, humidity |-> 70000, tds |-> 600120, ph |-> 6400]

(* C5: get_interpretation is total and its four bands partition the number *)
(* line: the category it returns for a model output is the one band that   *)
(* contains it, the boundaries 15, 25 and 35 falling in the upper band.    *)
C5_BandsPartition ==
    /\ Succeeded =>
          /\ response[1].body[1].interpretation \in Categories
          /\ \A c \in Categories :
                (response[1].body[1].interpretation = c) <=> InBand(prediction[1], c)
    /\ (cli_output # None /\ cli_output[1].interpretation # None) =>
          /\ cli_output[1].interpretation[1] \in Categories
          /\ \A c \in Categories :
                (cli_output[1].interpretation[1] = c) <=> InBand(cli_output[1].pred[1], c)

(* A model output of exactly 15 days classified as fast. *)
C5_Witness ==
    /\ Succeeded
    /\ prediction[1] = 15000
    /\ response[1].body[1].interpretation = "Fast growth - Good conditions"

(* C6: in every success record the interpretation is the category of the   *)
(* band that contains the predicted_growth_days reported in that record,   *)
(* also for a model output within 0.005 below a band boundary.             *)
C6_InterpretationMatchesReported ==
    Succeeded =>
        InBand(response[1].body[1].predicted_growth_days,
               response[1].body[1].interpretation)

(* C7: with an artifact resource absent (the others intact), the request   *)
(* fails naming exactly the missing resources, in the failure returned or  *)
(* in the message load_model prints, and neither transform nor predict is  *)
(* called.                                                                 *)
MissingFiles == {f \in FileSet : files[f].state = "absent"}

C7_MissingArtifactNamed ==
    (/\ Answered
     /\ errs = {}
     /\ MissingFiles # {}
     /\ \A f \in FileSet : files[f].state # "corrupt") =>
        /\ response[1].status = 500
        /\ response[1].body = None
        /\ response[1].named \cup printed = MissingFiles
        /\ calls.transform = 0
        /\ calls.predict = 0

(* C8: HTTP 422 is answered only when the caller's input misses a field or *)
(* is out of range; a missing or corrupt artifact, a feature-shape         *)
(* mismatch and an inference error are each answered with HTTP 500.        *)
C8_ValidationOnlyForCallerInput ==
    Answered =>
        /\ response[1].status = 422 => errs # {}
        /\ (errs = {} /\ ~Succeeded) => response[1].status = 500

(* C9: position i of the row given to the scaler holds the value of the    *)
(* reading field that features[i] names.                                   *)
C9_RowFollowsFeatures ==
    input_data # None =>
        \A i \in 1..Len(input_data[1].columns) :
            input_data[1].columns[i] \in FieldSet =>
                input_data[1].values[i] = reading[1][input_data[1].columns[i]]

(* C10: when the loaded features list has not exactly 4 entries or holds a *)
(* name that is no reading field, the request fails, returns no            *)
(* prediction, and the failure is neither a validation failure nor the     *)
(* generic inference error.                                                *)
FeaturesMalformed(fs) ==
    Len(fs) # 4 \/ \E i \in 1..Len(fs) : fs[i] \notin FieldSet

C10_FeatureShapeMismatchReported ==
    (Answered /\ bundle # None /\ FeaturesMalformed(bundle[1].model_info.features)) =>
        /\ response[1].body = None
        /\ response[1].status # 422
        /\ response[1].detail \notin {"Validation error", "Request validation",
                                      "Prediction error"}

(* C13: every predict request ends in exactly one outcome, a complete      *)
(* success record or one failure, never both and never a partial record;   *)
(* nothing is retried, so load_model, transform and predict are each       *)
(* called at most once per request; the outcome, once given, is not        *)
(* replaced, and a request in flight always has its next step.             *)
OutputFields ==
    {"predicted_growth_days", "input_conditions", "model_used",
     "model_accuracy_r2", "interpretation"}

InFlight == pc \notin {"idle", "done"}

C13_OneOutcomeState ==
    /\ calls.load_model <= 1 /\ calls.transform <= 1 /\ calls.predict <= 1
    /\ InFlight => response = None
    /\ InFlight => ENABLED (LoadModel \/ Frame \/ Transform \/ Predict
                                \/ BuildResult \/ Respond)
    /\ (pc = "done" /\ raw # None) => response # None
    /\ response # None =>
          /\ pc = "done"
          /\ (response[1].status = 200) <=> (response[1].body # None)
          /\ response[1].body # None =>
                /\ DOMAIN response[1].body[1] = OutputFields
                /\ response[1].errors = {}
                /\ response[1].detail = "OK"
          /\ response[1].body = None =>
                /\ response[1].status \in {422, 500}
                /\ response[1].detail \in {"Request validation", "Validation error",
                                           "Model file not found", "Prediction error"}

C13_ExactlyOneOutcome ==
    /\ []C13_OneOutcomeState
    /\ [][response # None => (response' = response \/ (response' = None /\ pc' = "idle"))]_vars

(* A failed load answered after a single call of load_model. *)
C13_Witness ==
    /\ Answered
    /\ errs = {}
    /\ response[1].body = None
    /\ calls = [load_model |-> 1, transform |-> 0, predict |-> 0]

(* C15: validation precedes all inference work: a request with a missing   *)
(* or out-of-range value loads no artifact and calls neither transform nor *)
(* predict, and load_model is only called for a request whose four values  *)
(* were validated and rounded.                                             *)
FailsValidation ==
    /\ raw # None
    /\ \E f \in FieldSet : Submitted(f) = None \/ OutOfRange(f)

C15_ValidationFirst ==
    /\ FailsValidation =>
          /\ calls = NoCalls
          /\ bundle = None /\ printed = {}
          /\ input_data = None /\ input_scaled = None
          /\ prediction = None /\ result = None
    /\ (calls.load_model > 0 \/ calls.transform > 0 \/ calls.predict > 0) =>
          /\ reading # None
          /\ \A f \in FieldSet :
                /\ Present(f)
                /\ InInterval(f, Submitted(f)[1])
                /\ IsRounded2(reading[1][f], Submitted(f)[1])

(* A rejected request, answered with the artifacts all loadable and none   *)
(* of them touched.                                                        *)
C15_Witness ==
    /\ Rejected422
    /\ FailsValidation
    /\ \A f \in FileSet : files[f].state = "ok"
    /\ calls = NoCalls
    /\ bundle = None

(* C17: every validated reading keeps the range invariant after rounding:  *)
(* the values echoed and fed to the pipeline are 2-decimal values inside   *)
(* their closed intervals, and a raw value outside the bounds is rejected  *)
(* even when its rounding equals a bound.                                  *)
C17_RangeKeptAfterRounding ==
    /\ reading # None =>
          \A f \in FieldSet :
              reading[1][f] % 10 = 0 /\ InInterval(f, reading[1][f])
    /\ input_data # None =>
          \A i \in 1..4 :
              /\ input_data[1].values[i] % 10 = 0
              /\ InInterval(Fields[i], input_data[1].values[i])
    /\ Succeeded =>
          \A f \in FieldSet :
              /\ response[1].body[1].input_conditions[f] % 10 = 0
              /\ InInterval(f, response[1].body[1].input_conditions[f])
    /\ raw # None =>
          \A f \in FieldSet :
              OutOfRange(f) => (reading = None /\ Rejected422)

(* A raw temperature of 34.996, accepted and carried forward as the upper  *)
(* bound 35.00.                                                            *)
C17_Witness ==
    /\ Succeeded
    /\ Submitted("temperature") = Some(34996)
    /\ response[1].body[1].input_conditions.temperature = 35000

(* C18: the two copies of get_interpretation return the same category for  *)
(* every predicted value: the category the endpoint shows is the one the   *)
(* script's copy gives for that value, and the reverse.                    *)
C18_CopiesAgree ==
    /\ Succeeded =>
          response[1].body[1].interpretation = predict_get_interpretation(prediction[1])
    /\ (cli_output # None /\ cli_output[1].interpretation # None) =>
          cli_output[1].interpretation[1] = get_interpretation(cli_output[1].pred[1])
    /\ prediction # None =>
          get_interpretation(prediction[1]) = predict_get_interpretation(prediction[1])

(* A model output of exactly 25 days shown by the endpoint. *)
C18_Witness ==
    /\ Succeeded
    /\ prediction[1] = 25000
    /\ response[1].body[1].interpretation = "Moderate growth - Acceptable conditions"
    /\ predict_get_interpretation(prediction[1]) = "Moderate growth - Acceptable conditions"

(* C12: the health check answers 'healthy' with model_loaded exactly when  *)
(* all three resources existed at its check and load_model then succeeded, *)
(* and then carries the model's name and accuracy; in every other case (a  *)
(* file missing at the check, a file vanishing before the load, the load   *)
(* raising) it answers 'unhealthy' with model_loaded false instead of      *)
(* raising; it never calls transform or predict.                           *)
LoadedFine ==
    /\ hmissing = {}
    /\ hdisk # None
    /\ \A f \in FileSet : hdisk[1][f].state = "ok"

C12_HealthyIffLoaded ==
    /\ hcalls.transform = 0 /\ hcalls.predict = 0 /\ hcalls.load_model <= 1
    /\ hpc = "done" => health # None
    /\ health # None =>
          /\ health[1].status \in {"healthy", "unhealthy"}
          /\ (health[1].status = "healthy") <=> LoadedFine
          /\ (health[1].status = "healthy") <=> health[1].model_loaded
          /\ health[1].status = "healthy" =>
                /\ health[1].model_name =
                      Some(hdisk[1]["model_info.json"].content[1].model_name)
                /\ health[1].model_accuracy # None
          /\ health[1].status = "unhealthy" =>
                /\ health[1].model_name = None
                /\ health[1].model_accuracy = None

(* All files existed at the check, one vanished before the load: the       *)
(* answer is 'unhealthy', not an exception.                                *)
C12_Witness ==
    /\ health # None
    /\ hmissing = {}
    /\ hdisk # None
    /\ hdisk[1]["scaler.pkl"].state = "absent"
    /\ hdisk[1]["best_model.pkl"].state = "ok"
    /\ health[1].status = "unhealthy"
    /\ health[1].model_loaded = FALSE

(* C16: a success record has predicted_growth_days equal to the model      *)
(* output rounded to 2 decimals, model_used equal to the metadata's        *)
(* model_name, and model_accuracy_r2 equal to the metadata's test_r2       *)
(* rounded to 4 decimals; the health check reports the same rounding, so   *)
(* both surfaces show the same accuracy for one bundle.                    *)
IsRounded4(r, v) ==
    /\ r % 10 = 0
    /\ Dist(r, v) <= 5
    /\ Dist(r, v) = 5 => (r \div 10) % 2 = 0

C16_RecordRounding ==
    /\ Succeeded =>
          /\ IsRounded2(response[1].body[1].predicted_growth_days, prediction[1])
          /\ response[1].body[1].model_used = bundle[1].model_info.model_name
          /\ IsRounded4(response[1].body[1].model_accuracy_r2,
                        bundle[1].model_info.test_r2)
    /\ (health # None /\ health[1].status = "healthy") =>
          /\ IsRounded4(health[1].model_accuracy[1],
                        hdisk[1]["model_info.json"].content[1].test_r2)
          /\ health[1].model_name[1] = hdisk[1]["model_info.json"].content[1].model_name
    /\ (Succeeded /\ health # None /\ health[1].status = "healthy") =>
          /\ response[1].body[1].model_accuracy_r2 = health[1].model_accuracy[1]
          /\ response[1].body[1].model_used = health[1].model_name[1]

(* A success record and a healthy answer side by side, the stored test_r2  *)
(* having a fifth decimal and the model output a third.                    *)
C16_Witness ==
    /\ Succeeded
    /\ health # None /\ health[1].status = "healthy"
    /\ bundle[1].model_info.test_r2 % 10 # 0
    /\ prediction[1] % 10 # 0
    /\ response[1].body[1].model_accuracy_r2 = health[1].model_accuracy[1]

(* The requests in flight: the running one and the parked ones. *)
Requests == BagToSet(parked) \cup (IF pc = "idle" THEN {} ELSE {Locals})

(* C11: prediction is deterministic: with the artifact files unchanged,    *)
(* two predict requests carrying the same four values are answered with    *)
(* the identical record (or the identical failure), whatever other         *)
(* requests were served before or between them.                            *)
C11_SameValuesSameAnswer ==
    /\ \A c1, c2 \in Requests :
          (c1.raw = c2.raw /\ c1.response # None /\ c2.response # None) =>
              c1.response = c2.response
    /\ \A c \in BagToSet(parked) :
          (c.raw = raw /\ c.response # None /\ response # None) =>
              /\ c.response = response
              /\ c.prediction = prediction

(* A success record waits answered while a later request with the same     *)
(* values is answered with the same record.                                *)
C11_Witness ==
    /\ Succeeded
    /\ calls.predict = 1
    /\ \E c \in BagToSet(parked) :
          /\ c.raw = raw
          /\ c.response = response
          /\ c.calls.predict = 1

(* C14: concurrent predict requests share no mutable state: under every    *)
(* interleaving of their steps each request's outcome is the one it would  *)
(* have alone, and each request sees its own reading and result only.      *)
C14_OutcomeAsIfAlone ==
    \A c \in Requests :
        /\ c.response # None => c.response[1] = Serve(c.raw[1], files)
        /\ c.reading # None => c.reading[1] = PredictionInput(c.raw[1]).values
        /\ c.input_data # None => c.input_data[1].values = input_values(c.reading[1])
        /\ c.result # None =>
              /\ c.reading # None /\ c.prediction # None
              /\ c.result[1].input_conditions = c.reading[1]
              /\ c.result[1].predicted_growth_days = RoundHalfEven(c.prediction[1])
        /\ (c.response # None /\ c.response[1].body # None) =>
              /\ c.response[1].body[1].input_conditions = c.reading[1]
              /\ c.response[1].body[1].predicted_growth_days =
                    RoundHalfEven(c.prediction[1])

(* Two requests with different readings, both answered with a success      *)
(* record, each with its own prediction.                                   *)
C14_Witness ==
    /\ Succeeded
    /\ \E c \in BagToSet(parked) :
          /\ c.response # None /\ c.response[1].body # None
          /\ c.raw # raw
          /\ c.prediction # prediction
          /\ c.response[1].body[1].input_conditions # response[1].body[1].input_conditions
=============================================================================
